---- MODULE Spec2Model ----
(***************************************************************************)
(* Model of src/container.rs (ruku): the Container lifecycle reconciler.   *)
(*                                                                         *)
(* One process execution performs one `run` or one `end` against a         *)
(* container runtime.  Every awaited runtime call is one atomic step; the  *)
(* local code between two awaits belongs to the step of the call before    *)
(* it.  The runtime is the environment: every call may fail for an opaque  *)
(* reason, succeeds only when the runtime's state allows it, and a         *)
(* container in state "removing" may disappear at any moment.              *)
(*                                                                         *)
(* Spec is a sequence of executions, one at a time; FairSpec adds that     *)
(* every awaited call returns; SpecConc is two runs side by side against   *)
(* a runtime that rejects calls for reasons of its state only.             *)
(***************************************************************************)
EXTENDS Integers, Sequences, FiniteSets, TLC

(* ---------------------------- bounds ---------------------------------- *)
\* ids the runtime may hand out in one behaviour (ids are never reused)
MaxId == 5

(* ------------------------ configuration ------------------------------- *)
\* self.name of the Container under study, a neighbour whose name contains
\* it, and an unrelated neighbour
N == "app"
OtherName == "app-db"
UnrelatedName == "web"
Versions == {"v1", "v2"}
Ports == {80, 8080}

\* the runtime's status vocabulary, as the strings of ContainerSummary.state
StateStrings ==
    {"", "created", "running", "restarting", "removing", "paused", "exited", "dead"}

\* Option<T>: None is <<>>, Some(v) is <<v>>
None == <<>>
Some(v) == <<v>>

VARIABLES
    containers,     \* the runtime: set of [id, name, state, image]
    nextId,         \* next id the runtime assigns
    pc,             \* position of the current process execution
    op,             \* "none", "run" or "end"
    config,         \* RukuConfig of the current execution: [version, port]
    container,      \* result of self.get(): Option<ContainerSummary>
    container_id,   \* Option<id> unwrapped from the summary
    new_container,  \* Option<id> of the ContainerCreateResponse
    calls,          \* runtime calls issued by the current execution
    log,            \* Logger messages of the current execution
    prev,           \* whether the execution before the current one was a run
                    \* that found no container named N and completed, and
                    \* its config
    procs           \* the executions of two processes that run side by side

vars == <<containers, nextId, pc, op, config, container, container_id,
          new_container, calls, log, prev, procs>>

(* ----------------------- desired spec --------------------------------- *)
\* crate::misc::get_image_name_with_version
get_image_name_with_version(name, version) == name \o ":" \o version

\* mutant: the image reference ignores the configured version
image_name_with_version_latest(cfg) == get_image_name_with_version(N, "latest")
\* line 32: let image_name_with_version = ...
image_name_with_version(cfg) == get_image_name_with_version(N, cfg.version)

\* the request of a call that carries none
NoReq == [name |-> "", image |-> "", exposed_ports |-> {}, port_bindings |-> {}]

\* mutant: the host port is a fixed default instead of the configured port
CreateRequest_default_host_port(image_name, cfg) ==
    [name |-> N,
     image |-> image_name,
     exposed_ports |-> {ToString(cfg.port) \o "/tcp"},
     port_bindings |-> {[port |-> ToString(cfg.port) \o "/tcp",
                         host_ip |-> None,
                         host_port |-> Some("80")]}]
\* lines 132-157: CreateContainerOptions and container::Config
CreateRequest(image_name, cfg) ==
    [name |-> N,
     image |-> image_name,
     exposed_ports |-> {ToString(cfg.port) \o "/tcp"},
     port_bindings |-> {[port |-> ToString(cfg.port) \o "/tcp",
                         host_ip |-> None,
                         host_port |-> Some(ToString(cfg.port))]}]

\* lines 115-123: ListContainersOptions { all: true, filters: name, limit: 1 }
ListRequest == [name |-> N, image |-> "", exposed_ports |-> {}, port_bindings |-> {}]

Call(o, id, ok, req) == [op |-> o, id |-> id, ok |-> ok, req |-> req]

(* --------------------------- runtime ---------------------------------- *)
Named(cs, name) == {c \in cs : c.name = name}
WithId(cs, id) == {c \in cs : c.id = id}

\* the characters of a name
Chars(name) ==
    CASE name = "app"    -> <<"a", "p", "p">>
      [] name = "app-db" -> <<"a", "p", "p", "-", "d", "b">>
      [] name = "web"    -> <<"w", "e", "b">>

IsInfix(p, s) ==
    \E i \in 0..(Len(s) - Len(p)) : SubSeq(s, i + 1, i + Len(p)) = p

\* the runtime's name filter: the value of the filter is a pattern that is
\* searched for in the container's name, so it matches all or part of it
NameFilterMatches(filter, name) == IsInfix(Chars(filter), Chars(name))

\* ContainerSummary: id and state are Options; names is never read by the
\* code and is kept to tell which container a summary describes
Summaries(c) ==
    {[id |-> i, state |-> s, name |-> c.name] :
        i \in {Some(c.id), None}, s \in {Some(c.state), None}}

\* lines 115-123: ListContainersOptions { all: true, filters: name, limit: 1 }
ListOptions == [all |-> TRUE, name |-> N, limit |-> 1]

\* docker.list_containers: the results the runtime may return, at most
\* options.limit summaries of the containers that pass the filters
Listed(cs, options) ==
    {c \in cs : /\ NameFilterMatches(options.name, c.name)
                /\ (options.all \/ c.state \in {"running", "restarting", "paused"})}
list_containers(cs, options) ==
    IF Listed(cs, options) = {} \/ options.limit = 0
    THEN {<<>>}
    ELSE {<<s>> : s \in UNION {Summaries(c) : c \in Listed(cs, options)}}

\* docker.stop_container: the runtime states after a successful stop
ActiveStates == {"running", "restarting"}
stop_container(cs, id) ==
    {(cs \ {c}) \cup
       {[c EXCEPT !.state = IF c.state \in ActiveStates \cup {"paused"}
                            THEN "exited" ELSE c.state]} : c \in WithId(cs, id)}

\* docker.remove_container (no force): an active container is rejected
remove_container(cs, id) ==
    {cs \ {c} : c \in {d \in WithId(cs, id) : d.state \notin ActiveStates}}

\* docker.start_container
start_container(cs, id) ==
    {(cs \ {c}) \cup {[c EXCEPT !.state = "running"]} :
        c \in {d \in WithId(cs, id) : d.state \in {"created", "exited", "running"}}}

\* docker.create_container: the name must be free; the runtime picks the id
create_container(cs, req, id) ==
    IF Named(cs, req.name) = {}
    THEN {cs \cup {[id |-> id, name |-> req.name, state |-> "created",
                    image |-> req.image]}}
    ELSE {}

(* ------------------------ local decisions ----------------------------- *)
\* ContainerStateStatusEnum::from_str
from_str(s) ==
    CASE s = ""           -> "EMPTY"
      [] s = "created"    -> "CREATED"
      [] s = "running"    -> "RUNNING"
      [] s = "paused"     -> "PAUSED"
      [] s = "restarting" -> "RESTARTING"
      [] s = "removing"   -> "REMOVING"
      [] s = "exited"     -> "EXITED"
      [] s = "dead"       -> "DEAD"
      [] OTHER            -> "Err"

\* mutant: the active arm removes without stopping first
match_state_active_remove(status) ==
    CASE status = "EMPTY" -> "create"
      [] status \in {"RUNNING", "RESTARTING"} -> "remove"
      [] status = "REMOVING" -> "create"
      [] status \in {"CREATED", "PAUSED", "EXITED", "DEAD"} -> "remove"
      [] OTHER -> "fatal"
\* mutant: every present container is stopped before it is removed
match_state_always_stop(status) ==
    CASE status = "EMPTY" -> "create"
      [] status \in {"RUNNING", "RESTARTING"} -> "stop"
      [] status = "REMOVING" -> "create"
      [] status \in {"CREATED", "PAUSED", "EXITED", "DEAD"} -> "stop"
      [] OTHER -> "fatal"
\* mutant: a removing container is removed like a non-active one
match_state_removing_remove(status) ==
    CASE status = "EMPTY" -> "create"
      [] status \in {"RUNNING", "RESTARTING"} -> "stop"
      [] status \in {"REMOVING", "CREATED", "PAUSED", "EXITED", "DEAD"} -> "remove"
      [] OTHER -> "fatal"
\* lines 43-55: the match on the observed status; the value is the next step
match_state(status) ==
    CASE status = "EMPTY" -> "create"
      [] status \in {"RUNNING", "RESTARTING"} -> "stop"
      [] status = "REMOVING" -> "create"
      [] status \in {"CREATED", "PAUSED", "EXITED", "DEAD"} -> "remove"
      [] OTHER -> "fatal"


\* mutant: a summary without a state is handled like an empty state
RunDecision_missing_state_as_empty(r) ==
    IF r = None
    THEN [pc |-> "create", id |-> None, log |-> <<>>]
    ELSE IF r[1].id = None
    THEN [pc |-> "fatal", id |-> None, log |-> <<"Failed to get container id">>]
    ELSE IF r[1].state = None
    THEN [pc |-> match_state("EMPTY"), id |-> r[1].id, log |-> <<>>]
    ELSE [pc |-> match_state(from_str(r[1].state[1])), id |-> r[1].id, log |-> <<>>]
\* mutant: a container that is already running is kept as it is
RunDecision_reuse_running(r) ==
    IF r = None
    THEN [pc |-> "create", id |-> None, log |-> <<>>]
    ELSE IF r[1].id = None
    THEN [pc |-> "fatal", id |-> None, log |-> <<"Failed to get container id">>]
    ELSE IF r[1].state = None
    THEN [pc |-> "fatal", id |-> r[1].id, log |-> <<"Failed to get container state">>]
    ELSE IF r[1].state[1] = "running"
    THEN [pc |-> "done", id |-> r[1].id, log |-> <<>>]
    ELSE [pc |-> match_state(from_str(r[1].state[1])), id |-> r[1].id, log |-> <<>>]
\* lines 34-61 of run: what follows the inspection
RunDecision(r) ==
    IF r = None
    THEN [pc |-> "create", id |-> None, log |-> <<>>]
    ELSE IF r[1].id = None
    THEN [pc |-> "fatal", id |-> None, log |-> <<"Failed to get container id">>]
    ELSE IF r[1].state = None
    THEN [pc |-> "fatal", id |-> r[1].id, log |-> <<"Failed to get container state">>]
    ELSE [pc |-> match_state(from_str(r[1].state[1])), id |-> r[1].id, log |-> <<>>]

\* mutant: end skips the stop of a container that is not active, as run does
EndDecision_branching(r) ==
    IF r = None
    THEN [pc |-> "done", id |-> None, log |-> <<"No application is running">>]
    ELSE IF r[1].id = None
    THEN [pc |-> "fatal", id |-> None, log |-> <<"Failed to get container id">>]
    ELSE [pc |-> IF r[1].state # None /\ r[1].state[1] \notin {"running", "restarting"}
                 THEN "remove" ELSE "stop",
          id |-> r[1].id, log |-> <<>>]
\* mutant: the absent case exits after logging its error, as every other error does
EndDecision_absent_exits(r) ==
    IF r = None
    THEN [pc |-> "fatal", id |-> None, log |-> <<"No application is running">>]
    ELSE IF r[1].id = None
    THEN [pc |-> "fatal", id |-> None, log |-> <<"Failed to get container id">>]
    ELSE [pc |-> "stop", id |-> r[1].id, log |-> <<>>]
\* lines 65-73 of end: what follows the inspection
EndDecision(r) ==
    IF r = None
    THEN [pc |-> "done", id |-> None, log |-> <<"No application is running">>]
    ELSE IF r[1].id = None
    THEN [pc |-> "fatal", id |-> None, log |-> <<"Failed to get container id">>]
    ELSE [pc |-> "stop", id |-> r[1].id, log |-> <<>>]

\* mutant: a failed remove is tried again
AfterRemove_retry(ok) ==
    IF ok THEN (IF op = "run" THEN "create" ELSE "done") ELSE "remove"
\* lines 92-101, then line 56 (run) or the end of end (line 70)
AfterRemove(ok) ==
    IF ok THEN (IF op = "run" THEN "create" ELSE "done") ELSE "fatal"

\* mutant: a failed stop does not exit
AfterStop_no_exit(ok) == "remove"
\* lines 76-90: stop_and_remove goes on to remove once stop has returned
AfterStop(ok) == IF ok THEN "remove" ELSE "fatal"

\* mutant: the else branch of run (lines 58-61) does not start what it created
AfterCreate_else_no_start(ok) ==
    IF ok THEN (IF container = None THEN "done" ELSE "start") ELSE "fatal"
\* mutant: run returns after create without starting the container
AfterCreate_no_start(ok) == IF ok THEN "done" ELSE "fatal"
\* mutant: a rejected create is tried again until the name is free
AfterCreate_retry(ok) == IF ok THEN "start" ELSE "create"
\* lines 160-169, then line 57 or line 60
AfterCreate(ok) == IF ok THEN "start" ELSE "fatal"

\* mutant: a failed start is followed by the removal of the leftovers
AfterStart_rollback(ok) == IF ok THEN "done" ELSE "remove"
\* lines 103-112, then the end of run
AfterStart(ok) == IF ok THEN "done" ELSE "fatal"

(* --------------------------- actions ---------------------------------- *)
\* the execution before was not a completed run that found no container
\* named N
NoPrev == [first_run |-> FALSE, config |-> [version |-> "v1", port |-> 80]]

\* Container::new followed by the call of run or end in a fresh process
Begin ==
    /\ pc \in {"idle", "done", "fatal"}
    /\ nextId <= MaxId
    /\ \E o \in {"run", "end"}, v \in Versions, p \in Ports :
          /\ op' = o
          /\ config' = [version |-> v, port |-> p]
          /\ pc' = "get"
    /\ container' = None
    /\ container_id' = None
    /\ new_container' = None
    /\ calls' = <<>>
    /\ log' = <<>>
    /\ prev' = IF op = "run" /\ pc = "done"
                     /\ (container = None \/ container[1].name # N)
               THEN [first_run |-> TRUE, config |-> config]
               ELSE NoPrev
    /\ UNCHANGED <<containers, nextId, procs>>

\* mutant: a failed listing is tried again
Get_retry ==
    LET decide(r) == IF op = "run" THEN RunDecision(r) ELSE EndDecision(r) IN
    \/ /\ calls' = Append(calls, Call("list", 0, FALSE, ListRequest))
       /\ log' = Append(log, "Failed to list containers")
       /\ pc' = "get"
       /\ UNCHANGED <<container, container_id>>
    \/ \E r \in list_containers(containers, ListOptions) :
          /\ calls' = Append(calls, Call("list", 0, TRUE, ListRequest))
          /\ container' = r
          /\ container_id' = decide(r).id
          /\ log' = log \o decide(r).log
          /\ pc' = decide(r).pc
\* the call of self.get() (lines 114-129) and the code up to the next await
Get ==
    LET decide(r) == IF op = "run" THEN RunDecision(r) ELSE EndDecision(r) IN
    \/ /\ calls' = Append(calls, Call("list", 0, FALSE, ListRequest))
       /\ log' = Append(log, "Failed to list containers")
       /\ pc' = "fatal"
       /\ UNCHANGED <<container, container_id>>
    \/ \E r \in list_containers(containers, ListOptions) :
          /\ calls' = Append(calls, Call("list", 0, TRUE, ListRequest))
          /\ container' = r
          /\ container_id' = decide(r).id
          /\ log' = log \o decide(r).log
          /\ pc' = decide(r).pc

\* run, lines 31-55
RunGet ==
    /\ pc = "get" /\ op = "run"
    /\ Get
    /\ UNCHANGED <<containers, nextId, op, config, new_container, prev, procs>>

\* end, lines 64-74
EndGet ==
    /\ pc = "get" /\ op = "end"
    /\ Get
    /\ UNCHANGED <<containers, nextId, op, config, new_container, prev, procs>>

\* stop, lines 81-90
Stop ==
    /\ pc = "stop"
    /\ LET id == container_id[1] IN
          \/ /\ calls' = Append(calls, Call("stop", id, FALSE, NoReq))
             /\ log' = Append(log, "Failed to stop container")
             /\ pc' = AfterStop(FALSE)
             /\ UNCHANGED containers
          \/ \E cs \in stop_container(containers, id) :
                /\ containers' = cs
                /\ calls' = Append(calls, Call("stop", id, TRUE, NoReq))
                /\ log' = Append(log, "Stopped container with id: " \o ToString(id))
                /\ pc' = AfterStop(TRUE)
    /\ UNCHANGED <<nextId, op, config, container, container_id, new_container,
                   prev, procs>>

\* remove, lines 92-101
Remove ==
    /\ pc = "remove"
    /\ LET id == container_id[1] IN
          \/ /\ calls' = Append(calls, Call("remove", id, FALSE, NoReq))
             /\ log' = Append(log, "Failed to remove container")
             /\ pc' = AfterRemove(FALSE)
             /\ UNCHANGED containers
          \/ \E cs \in remove_container(containers, id) :
                /\ containers' = cs
                /\ calls' = Append(calls, Call("remove", id, TRUE, NoReq))
                /\ log' = Append(log, "Removed container with id: " \o ToString(id))
                /\ pc' = AfterRemove(TRUE)
    /\ UNCHANGED <<nextId, op, config, container, container_id, new_container,
                   prev, procs>>

\* create, lines 131-170
Create ==
    /\ pc = "create"
    /\ LET req == CreateRequest(image_name_with_version(config), config) IN
          \/ /\ calls' = Append(calls, Call("create", 0, FALSE, req))
             /\ log' = Append(log, "Failed to create container")
             /\ pc' = AfterCreate(FALSE)
             /\ UNCHANGED <<containers, nextId, new_container>>
          \/ \E cs \in create_container(containers, req, nextId) :
                /\ containers' = cs
                /\ nextId' = nextId + 1
                /\ new_container' = Some(nextId)
                /\ calls' = Append(calls, Call("create", nextId, TRUE, req))
                /\ log' = Append(log, "Created container with id: " \o ToString(nextId))
                /\ pc' = AfterCreate(TRUE)
    /\ UNCHANGED <<op, config, container, container_id, prev, procs>>

\* start, lines 103-112
Start ==
    /\ pc = "start"
    /\ LET id == new_container[1] IN
          \/ /\ calls' = Append(calls, Call("start", id, FALSE, NoReq))
             /\ log' = Append(log, "Failed to start container")
             /\ pc' = AfterStart(FALSE)
             /\ UNCHANGED containers
          \/ \E cs \in start_container(containers, id) :
                /\ containers' = cs
                /\ calls' = Append(calls, Call("start", id, TRUE, NoReq))
                /\ log' = Append(log, "Started container with id: " \o ToString(id))
                /\ pc' = AfterStart(TRUE)
    /\ UNCHANGED <<nextId, op, config, container, container_id, new_container,
                   prev, procs>>

\* the runtime finishes a removal that was in progress
RemovalCompletes ==
    /\ \E c \in containers :
          /\ c.state = "removing"
          /\ containers' = containers \ {c}
    /\ UNCHANGED <<nextId, pc, op, config, container, container_id,
                   new_container, calls, log, prev, procs>>

(* ------------------------ specification ------------------------------- *)
\* two invocations of the program in separate processes
Procs == {1, 2}
\* a process that has not called run yet
ProcIdle == [pc |-> "idle", container_id |-> None, new_container |-> None]

\* at most one container per name; N's has id 1, the neighbours' 2 and 3
InitContainers ==
    {a \cup b \cup c :
       a \in {{}} \cup {{[id |-> 1, name |-> N, state |-> s,
                          image |-> get_image_name_with_version(N, v)]} :
                           s \in StateStrings, v \in Versions},
       b \in {{}} \cup {{[id |-> 2, name |-> OtherName, state |-> s,
                          image |-> get_image_name_with_version(OtherName, "v1")]} :
                           s \in {"running", "exited"}},
       c \in {{}, {[id |-> 3, name |-> UnrelatedName, state |-> "running",
                    image |-> get_image_name_with_version(UnrelatedName, "v1")]}}}

Init ==
    /\ containers \in InitContainers
    /\ nextId = 4
    /\ pc = "idle"
    /\ op = "none"
    /\ config = [version |-> "v1", port |-> 80]
    /\ container = None
    /\ container_id = None
    /\ new_container = None
    /\ calls = <<>>
    /\ log = <<>>
    /\ prev = NoPrev
    /\ procs = [p \in Procs |-> ProcIdle]

Next ==
    \/ Begin
    \/ RunGet
    \/ EndGet
    \/ Stop
    \/ Remove
    \/ Create
    \/ Start
    \/ RemovalCompletes

Spec == Init /\ [][Next]_vars

\* the variables of the single execution, which the two processes leave alone
SeqVars == <<pc, op, config, container, container_id, new_container,
             calls, log, prev>>

\* Two processes call run for the same name and configuration side by
\* side.  The runtime rejects a call only when its state forbids it; the
\* steps are those of run (lines 31-62), one per awaited call.
ConcBegin(p) ==
    /\ procs[p].pc = "idle"
    /\ procs' = [procs EXCEPT ![p].pc = "get"]
    /\ UNCHANGED <<containers, nextId>>
    /\ UNCHANGED SeqVars

ConcGet(p) ==
    /\ procs[p].pc = "get"
    /\ \E r \in list_containers(containers, ListOptions) :
          procs' = [procs EXCEPT ![p].pc = RunDecision(r).pc,
                                 ![p].container_id = RunDecision(r).id]
    /\ UNCHANGED <<containers, nextId>>
    /\ UNCHANGED SeqVars

ConcStop(p) ==
    /\ procs[p].pc = "stop"
    /\ LET after == stop_container(containers, procs[p].container_id[1]) IN
          IF after = {}
          THEN /\ procs' = [procs EXCEPT ![p].pc = AfterStop(FALSE)]
               /\ UNCHANGED containers
          ELSE /\ containers' \in after
               /\ procs' = [procs EXCEPT ![p].pc = AfterStop(TRUE)]
    /\ UNCHANGED nextId
    /\ UNCHANGED SeqVars

ConcRemove(p) ==
    /\ procs[p].pc = "remove"
    /\ LET after == remove_container(containers, procs[p].container_id[1]) IN
          IF after = {}
          THEN /\ procs' = [procs EXCEPT ![p].pc = AfterRemove(FALSE)]
               /\ UNCHANGED containers
          ELSE /\ containers' \in after
               /\ procs' = [procs EXCEPT ![p].pc = AfterRemove(TRUE)]
    /\ UNCHANGED nextId
    /\ UNCHANGED SeqVars

ConcCreate(p) ==
    /\ procs[p].pc = "create"
    /\ LET req == CreateRequest(image_name_with_version(config), config)
           after == create_container(containers, req, nextId) IN
          IF after = {}
          THEN /\ procs' = [procs EXCEPT ![p].pc = AfterCreate(FALSE)]
               /\ UNCHANGED <<containers, nextId>>
          ELSE /\ containers' \in after
               /\ nextId' = nextId + 1
               /\ procs' = [procs EXCEPT ![p].pc = AfterCreate(TRUE),
                                         ![p].new_container = Some(nextId)]
    /\ UNCHANGED SeqVars

ConcStart(p) ==
    /\ procs[p].pc = "start"
    /\ LET after == start_container(containers, procs[p].new_container[1]) IN
          IF after = {}
          THEN /\ procs' = [procs EXCEPT ![p].pc = AfterStart(FALSE)]
               /\ UNCHANGED containers
          ELSE /\ containers' \in after
               /\ procs' = [procs EXCEPT ![p].pc = AfterStart(TRUE)]
    /\ UNCHANGED nextId
    /\ UNCHANGED SeqVars

InitConc ==
    /\ containers \in InitContainers
    /\ nextId = 4
    /\ pc = "idle"
    /\ op = "run"
    /\ config \in [version : Versions, port : Ports]
    /\ container = None
    /\ container_id = None
    /\ new_container = None
    /\ calls = <<>>
    /\ log = <<>>
    /\ prev = NoPrev
    /\ procs = [p \in Procs |-> ProcIdle]

NextConc ==
    \/ \E p \in Procs : ConcBegin(p)
    \/ \E p \in Procs : ConcGet(p)
    \/ \E p \in Procs : ConcStop(p)
    \/ \E p \in Procs : ConcRemove(p)
    \/ \E p \in Procs : ConcCreate(p)
    \/ \E p \in Procs : ConcStart(p)
    \/ RemovalCompletes

SpecConc == InitConc /\ [][NextConc]_vars

\* every runtime call that is awaited returns, so the execution goes on
FairSpec ==
    /\ Spec
    /\ WF_vars(RunGet) /\ WF_vars(EndGet)
    /\ WF_vars(Stop) /\ WF_vars(Remove) /\ WF_vars(Create) /\ WF_vars(Start)

(* ------------------- vocabulary of the properties --------------------- *)
IsPrefix(s, t) == Len(s) <= Len(t) /\ \A i \in 1..Len(s) : s[i] = t[i]

IsLifecycle(c) == c.op # "list"
\* the stop, remove, create and start calls of the current execution
Lifecycle == SelectSeq(calls, IsLifecycle)

\* what a call was issued with: its target id, or for create its name and image
Sig(c) ==
    [op |-> c.op,
     id |-> IF c.op = "create" THEN 0 ELSE c.id,
     name |-> c.req.name,
     image |-> c.req.image]
Sigs(seq) == [i \in 1..Len(seq) |-> Sig(seq[i])]
OpsOf(seq) == {seq[i].op : i \in 1..Len(seq)}

\* the inspection has returned
Inspected == Len(calls) >= 1 /\ calls[1].op = "list" /\ calls[1].ok
Found == Inspected /\ container # None
Absent == Inspected /\ container = None
ObservedState(S) ==
    /\ Found
    /\ container[1].state # None
    /\ container[1].state[1] \in S
\* the id of the observed summary (0 when it carries none)
ObservedId ==
    IF container = None \/ container[1].id = None THEN 0 ELSE container[1].id[1]
IsCreate(c) == c.op = "create"
\* the id returned by this execution's create call (0 when there is none)
CreatedId ==
    LET cr == SelectSeq(calls, IsCreate) IN IF cr = <<>> THEN 0 ELSE cr[1].id

\* spec.image_reference of the current execution
SpecImage == get_image_name_with_version(N, config.version)

SigStop == [op |-> "stop", id |-> ObservedId, name |-> "", image |-> ""]
SigRemove == [op |-> "remove", id |-> ObservedId, name |-> "", image |-> ""]
SigCreate == [op |-> "create", id |-> 0, name |-> N, image |-> SpecImage]
SigStart == [op |-> "start", id |-> CreatedId, name |-> "", image |-> ""]

Terminated == pc \in {"done", "fatal"}

(* ----------------------------- C1 ------------------------------------- *)
\* C1: whenever run completes without a fatal failure, exactly one
\* container named N exists, it is running, and its image is
\* spec.image_reference.
C1_RunPost ==
    (op = "run" /\ pc = "done") =>
        /\ Cardinality(Named(containers, N)) = 1
        /\ \A c \in Named(containers, N) :
              c.state = "running" /\ c.image = SpecImage

\* a run that replaced a running container of another version has completed
C1_Witness ==
    /\ op = "run" /\ pc = "done"
    /\ ObservedState({"running"})
    /\ config.version = "v2"
    /\ Cardinality(Named(containers, N)) = 1

(* ----------------------------- C2 ------------------------------------- *)
\* C2: whenever end completes without a fatal failure, no container named
\* N exists.
C2_EndPost ==
    (op = "end" /\ pc = "done") => Named(containers, N) = {}

(* ----------------------------- C3 ------------------------------------- *)
AtMostOneN == Cardinality(Named(containers, N)) <= 1

\* C3: at most one container bears name N in every reachable state, and run
\* never issues a create call while the container it observed still exists
\* in the runtime, whatever status it observed.
C3_NoCreateWhileObservedExists ==
    /\ []AtMostOneN
    /\ [][(op = "run" /\ pc = "create" /\ calls' # calls
              /\ container # None /\ container[1].name = N) =>
             WithId(containers, ObservedId) = {}]_vars

(* ----------------------------- C4 ------------------------------------- *)
\* C4: when run observes a running or restarting container, the lifecycle
\* calls are stop(observed id), remove(observed id), create(N, image),
\* start(new id), in that order and each once; with no failing call all
\* four are issued.
C4_ActiveSequence ==
    (op = "run" /\ ObservedState({"running", "restarting"})) =>
        /\ IsPrefix(Sigs(Lifecycle), <<SigStop, SigRemove, SigCreate, SigStart>>)
        /\ pc = "done" => Sigs(Lifecycle) = <<SigStop, SigRemove, SigCreate, SigStart>>
        /\ (Terminated /\ container_id # None /\ \A i \in 1..Len(calls) : calls[i].ok)
              => pc = "done"

\* the four calls were issued after a restarting container was observed
C4_Witness ==
    /\ op = "run" /\ pc = "done"
    /\ ObservedState({"restarting"})
    /\ Len(Lifecycle) = 4
    /\ CreatedId # ObservedId

(* ----------------------------- C5 ------------------------------------- *)
\* C5: when run's inspection finds no container named N, the lifecycle
\* calls are create then start, and neither stop nor remove is issued.
C5_AbsentFastPath ==
    (op = "run" /\ Absent) =>
        /\ IsPrefix(Sigs(Lifecycle), <<SigCreate, SigStart>>)
        /\ OpsOf(Lifecycle) \cap {"stop", "remove"} = {}
        /\ pc = "done" => Sigs(Lifecycle) = <<SigCreate, SigStart>>
        /\ (Terminated /\ \A i \in 1..Len(calls) : calls[i].ok) => pc = "done"

\* a run that found nothing has created and started a container
C5_Witness ==
    /\ op = "run" /\ pc = "done"
    /\ Absent
    /\ Len(Lifecycle) = 2

(* ----------------------------- C6 ------------------------------------- *)
NonActive == {"created", "paused", "exited", "dead"}

\* C6: for an observed status of created, paused, exited or dead, run
\* issues no stop, and with no failing call the lifecycle calls are
\* remove(observed id), create, start, in that order.
C6_NonActiveSkipStop ==
    (op = "run" /\ ObservedState(NonActive)) =>
        /\ "stop" \notin OpsOf(Lifecycle)
        /\ IsPrefix(Sigs(Lifecycle), <<SigRemove, SigCreate, SigStart>>)
        /\ pc = "done" => Sigs(Lifecycle) = <<SigRemove, SigCreate, SigStart>>
        /\ (Terminated /\ container_id # None /\ \A i \in 1..Len(calls) : calls[i].ok)
              => pc = "done"

\* a run that observed an exited container has removed and replaced it
C6_Witness ==
    /\ op = "run" /\ pc = "done"
    /\ ObservedState({"exited"})
    /\ Len(Lifecycle) = 3

(* ----------------------------- C7 ------------------------------------- *)
\* C7: for an observed status of empty or removing, run issues neither
\* stop nor remove; its first lifecycle call is create for N, and start
\* follows when create succeeds.
C7_EmptyRemovingFallThrough ==
    (op = "run" /\ ObservedState({"", "removing"})) =>
        /\ OpsOf(Lifecycle) \cap {"stop", "remove"} = {}
        /\ IsPrefix(Sigs(Lifecycle), <<SigCreate, SigStart>>)
        /\ (Terminated /\ container_id # None) => Len(Lifecycle) >= 1
        /\ (Terminated /\ Len(Lifecycle) >= 1 /\ Lifecycle[1].ok)
              => Sigs(Lifecycle) = <<SigCreate, SigStart>>

\* a run that observed a removing container went straight to create
C7_Witness ==
    /\ op = "run" /\ Terminated
    /\ ObservedState({"removing"})
    /\ Len(Lifecycle) >= 1
    /\ Lifecycle[1].op = "create"

(* ----------------------------- C8 ------------------------------------- *)
\* C8: when end's inspection finds a container, whatever its status, end
\* issues stop(observed id) then remove(observed id) and never a create or
\* a start.
C8_EndNoBranching ==
    (op = "end" /\ Found) =>
        /\ IsPrefix(Sigs(Lifecycle), <<SigStop, SigRemove>>)
        /\ OpsOf(Lifecycle) \cap {"create", "start"} = {}
        /\ pc = "done" => Sigs(Lifecycle) = <<SigStop, SigRemove>>
        /\ (Terminated /\ container_id # None /\ \A i \in 1..Len(calls) : calls[i].ok)
              => pc = "done"

\* an end that observed an exited container has stopped and removed it
C8_Witness ==
    /\ op = "end" /\ pc = "done"
    /\ ObservedState({"exited"})
    /\ Len(Lifecycle) = 2

(* ----------------------------- C9 ------------------------------------- *)
\* C9: when end's inspection finds no container named N, end issues no
\* lifecycle call, reports "No application is running", leaves the runtime
\* as it is and completes normally.
C9_EndAbsent ==
    /\ []((op = "end" /\ Absent) =>
             /\ pc = "done"
             /\ Lifecycle = <<>>
             /\ log = <<"No application is running">>)
    /\ [][(op = "end" /\ pc = "get" /\ calls' # calls /\ container' = None
             /\ calls'[Len(calls')].ok)
            => containers' = containers]_vars

\* an end has found nothing to stop while an unrelated container exists
C9_Witness ==
    /\ op = "end" /\ Absent
    /\ Named(containers, UnrelatedName) # {}

(* ----------------------------- C10 ------------------------------------ *)
\* C10: once a runtime call of an execution has failed, the execution
\* issues no further call and ends in the fatal state.
C10_FailureShortCircuits ==
    \A i \in 1..Len(calls) :
        ~calls[i].ok => (i = Len(calls) /\ pc = "fatal")

\* a stop has failed
C10_Witness ==
    /\ Len(calls) >= 2
    /\ calls[Len(calls)].op = "stop"
    /\ ~calls[Len(calls)].ok

(* ----------------------------- C11 ------------------------------------ *)
FailedAt(i, o) == calls[i].op = o /\ ~calls[i].ok

\* C11: nothing is rolled back when an execution aborts: a failing call
\* leaves the runtime as the earlier calls made it; after a failed start the
\* container created for N is still there in state created, and no stop or
\* remove was issued for it; after a failed remove in end the stopped
\* container stays stopped.
C11_NoRollback ==
    /\ [](\A i \in 1..Len(calls) :
            /\ FailedAt(i, "start") =>
                  /\ pc = "fatal" /\ i = Len(calls)
                  /\ \E c \in WithId(containers, CreatedId) :
                        c.name = N /\ c.state = "created" /\ c.image = SpecImage
                  /\ \A j \in 1..Len(calls) :
                        calls[j].op \in {"stop", "remove"} => calls[j].id # CreatedId
            /\ (FailedAt(i, "remove") /\ i > 1 /\ calls[i - 1].op = "stop") =>
                  /\ pc = "fatal" /\ i = Len(calls)
                  /\ \A c \in WithId(containers, ObservedId) :
                        c.state \notin ActiveStates)
    /\ [][(calls' # calls /\ calls' # <<>> /\ ~calls'[Len(calls')].ok)
            => containers' = containers]_vars

\* a run has aborted on a failed start and its new container is left behind
C11_Witness ==
    /\ op = "run" /\ pc = "fatal"
    /\ calls # <<>> /\ FailedAt(Len(calls), "start")
    /\ WithId(containers, CreatedId) # {}

(* ----------------------------- C12 ------------------------------------ *)
\* the current execution is the second of two runs in succession with the
\* same config, the first of which started with no container named N
SecondRun == op = "run" /\ prev.first_run /\ prev.config = config

\* C12: of two runs in succession with the same spec, starting with no
\* container named N, each leaves exactly one container named N; the second
\* issues stop, remove, create, start in that order, and no state in between
\* holds two containers named N.
C12_IdempotentConvergence ==
    SecondRun =>
        /\ AtMostOneN
        /\ pc = "get" =>
              /\ Cardinality(Named(containers, N)) = 1
              /\ \A c \in Named(containers, N) :
                    c.state = "running" /\ c.image = SpecImage
        /\ IsPrefix(Sigs(Lifecycle), <<SigStop, SigRemove, SigCreate, SigStart>>)
        /\ pc = "done" =>
              /\ Sigs(Lifecycle) = <<SigStop, SigRemove, SigCreate, SigStart>>
              /\ Cardinality(Named(containers, N)) = 1
        /\ (Terminated /\ container_id # None /\ container[1].state # None
              /\ \A i \in 1..Len(calls) : calls[i].ok) => pc = "done"

\* the second run has replaced the container of the first
C12_Witness ==
    /\ SecondRun /\ pc = "done"
    /\ Len(Lifecycle) = 4
    /\ container[1].name = N

(* ----------------------------- C13 ------------------------------------ *)
LacksId == Found /\ container[1].id = None
LacksState == Found /\ container[1].state = None
FatalWithoutLifecycle == pc = "fatal" /\ Lifecycle = <<>>

\* C13, as claimed: whenever the inspection returns a summary that lacks an
\* id or a state, the execution (run or end) terminates fatally without a
\* stop, remove, create or start call.
C13_MissingFieldsFatal ==
    (LacksId \/ LacksState) => FatalWithoutLifecycle

\* C13, amended: a summary that lacks an id is fatal in run and in end; one
\* that lacks a state is fatal in run only, and end, which never reads the
\* state, goes on to stop and remove the container.
C13_MissingFieldsFatalAmended ==
    /\ LacksId => FatalWithoutLifecycle
    /\ (op = "run" /\ LacksState) => FatalWithoutLifecycle
    /\ (op = "end" /\ LacksState /\ ~LacksId) =>
          /\ Lifecycle = <<>> => pc = "stop"
          /\ IsPrefix(Sigs(Lifecycle), <<SigStop, SigRemove>>)

\* a run was given a summary with an id and no state, and exited
C13_Witness ==
    /\ op = "run" /\ LacksState /\ ~LacksId
    /\ pc = "fatal"
    /\ log = <<"Failed to get container state">>

(* ----------------------------- C14 ------------------------------------ *)
\* the summary describes a container that is in the runtime
Describes(summary, c) ==
    /\ summary.name = c.name
    /\ summary.id \in {None, Some(c.id)}
    /\ summary.state \in {None, Some(c.state)}

\* C14: every run and every end issues exactly one list call, before any
\* other call, starts with nothing observed and decides on what that call
\* returned from the runtime as it is then; a failed list call is fatal at
\* once, with no retry and no lifecycle call.
C14_OneFreshList ==
    /\ [](/\ pc = "get" => (calls = <<>> /\ container = None /\ container_id = None)
          /\ pc \notin {"idle", "get"} =>
                /\ calls # <<>> /\ calls[1].op = "list"
                /\ \A i \in 2..Len(calls) : calls[i].op # "list"
          /\ (calls # <<>> /\ ~calls[1].ok) => (pc = "fatal" /\ Len(calls) = 1)
          /\ container_id # None => (container # None /\ container_id = container[1].id))
    /\ [][(pc = "get" /\ calls' # calls /\ container' # None)
            => \E c \in containers : Describes(container'[1], c)]_vars

\* a list call has failed and ended the execution
C14_Witness ==
    /\ pc = "fatal"
    /\ Len(calls) = 1
    /\ ~calls[1].ok

(* ----------------------------- C15 ------------------------------------ *)
\* C15: the inspection reports absent exactly when the runtime holds no
\* container whose name is N: a container named N is returned whatever its
\* status, and a container of another name is never returned for N.
C15_InspectorExact ==
    [][(pc = "get" /\ calls' # calls /\ calls'[1].ok) =>
          /\ container' = None <=> Named(containers, N) = {}
          /\ container' # None => container'[1].name = N]_vars

(* ----------------------------- C16 ------------------------------------ *)
\* the container port of the desired spec, as the runtime names it
ExposedPort == ToString(config.port) \o "/tcp"

\* C16: every create call carries the name N, the image reference built
\* from the configured name and version, and one port binding that maps the
\* configured port to the same host port on all host interfaces, on every
\* branch of run.
C16_CreateRequest ==
    \A i \in 1..Len(calls) :
        calls[i].op = "create" =>
            /\ calls[i].req.name = N
            /\ calls[i].req.image = SpecImage
            /\ calls[i].req.exposed_ports = {ExposedPort}
            /\ \A b \in calls[i].req.port_bindings :
                  /\ b.port = ExposedPort
                  /\ b.host_port = Some(ToString(config.port))
                  /\ b.host_ip = None
            /\ Cardinality(calls[i].req.port_bindings) = 1

\* a create call for port 8080 was issued on the branch that removes first
C16_Witness ==
    /\ op = "run" /\ config.port = 8080
    /\ Len(Lifecycle) >= 2
    /\ Lifecycle[1].op = "remove"
    /\ Lifecycle[2].op = "create"

(* ----------------------------- C17 ------------------------------------ *)
\* run observed a container named N as empty or removing and is about to
\* issue create while that container is still in the runtime
CreateOverObserved ==
    /\ op = "run" /\ pc = "create"
    /\ ObservedState({"", "removing"})
    /\ container[1].name = N
    /\ WithId(containers, ObservedId) # {}

\* C17: when run has observed a container named N as removing or empty and
\* that container still exists when create is issued, the create fails, run
\* ends fatally without a start, without a retry and without touching the
\* observed container.
C17_RemovingHazard ==
    [][(CreateOverObserved /\ calls' # calls) =>
          /\ ~calls'[Len(calls')].ok
          /\ calls'[Len(calls')].op = "create"
          /\ pc' = "fatal"
          /\ containers' = containers
          /\ OpsOf(calls') \cap {"stop", "remove", "start"} = {}]_vars

\* the create over a container still in removal has failed
C17_Witness ==
    /\ op = "run" /\ pc = "fatal"
    /\ ObservedState({"removing"})
    /\ container[1].name = N
    /\ WithId(containers, ObservedId) # {}
    /\ Len(Lifecycle) = 1
    /\ FailedAt(Len(calls), "create")

(* ----------------------------- C18 ------------------------------------ *)
\* C18: every stop and remove targets the id this execution's inspection
\* returned, every start targets the id this execution's create returned and
\* never the observed one, and no container whose name is not N is the
\* target of a stop, remove or start.
C18_CallTargets ==
    \A i \in 1..Len(calls) :
        /\ calls[i].op \in {"stop", "remove"} =>
              /\ container # None
              /\ container[1].id = Some(calls[i].id)
              /\ container[1].name = N
        /\ calls[i].op = "start" =>
              /\ CreatedId # 0
              /\ calls[i].id = CreatedId
              /\ calls[i].id # ObservedId

(* ----------------------------- C19 ------------------------------------ *)
CountOf(o) == Cardinality({i \in 1..Len(calls) : calls[i].op = o})

\* C19: when every runtime call returns, every run ends (done or fatal) after
\* at most one list, stop, remove, create and start call, and every end after
\* at most one list, stop and remove call; no call is repeated.
C19_Termination ==
    /\ [](/\ \A o \in {"list", "stop", "remove", "create", "start"} : CountOf(o) <= 1
          /\ op = "end" => CountOf("create") + CountOf("start") = 0)
    /\ (pc \in {"get", "stop", "remove", "create", "start"}) ~> Terminated

\* a run has ended after one call of each kind
C19_Witness ==
    /\ op = "run" /\ pc = "done"
    /\ Len(calls) = 5

(* ----------------------------- C20 ------------------------------------ *)
BothTerminated == \A p \in Procs : procs[p].pc \in {"done", "fatal"}
SomeSucceeded == \E p \in Procs : procs[p].pc = "done"

\* C20: when two runs for N interleave their runtime calls, no reachable
\* state holds two containers named N, and once both have ended and at least
\* one has succeeded, exactly one container named N exists and it is running.
C20_ConcurrentRuns ==
    /\ AtMostOneN
    /\ (BothTerminated /\ SomeSucceeded) =>
          /\ Cardinality(Named(containers, N)) = 1
          /\ \A c \in Named(containers, N) : c.state = "running"

\* one run has succeeded and the other was rejected by the runtime after it
\* had observed the same container
C20_Witness ==
    /\ BothTerminated
    /\ \E p, q \in Procs :
          /\ procs[p].pc = "done"
          /\ procs[q].pc = "fatal"
          /\ procs[q].container_id # None
          /\ procs[p].container_id = procs[q].container_id

====
